---- MODULE Spec2Model ----
(***************************************************************************)
(* A model of vp.c (vegpacker): compute_min_width, adjust_best_widths,     *)
(* pack_rectangles and main.                                               *)
(*                                                                         *)
(* Numbers.  The program computes in IEEE 754 binary64 (double).  A double *)
(* is modelled as [s, m, e], the number s * m * 2^e with s the sign, m a   *)
(* 53-bit natural number and e the exponent; 0 is [0, <<>>, 0].  Sums,     *)
(* differences, products and quotients are computed exactly and rounded to *)
(* the nearest double, ties to even, one operation at a time in the order  *)
(* the source writes them (no fused multiply-add).  The program's values   *)
(* stay far from overflow and underflow, so infinities, NaNs and           *)
(* subnormals are not modelled.                                            *)
(***************************************************************************)
EXTENDS Integers, Sequences, FiniteSets, Bags, TLC

VARIABLES
    pc,     \* position of the program
    cmw,    \* the frame of compute_min_width: its parameters and locals
    mn,     \* the frame of main
    adj,    \* the frame of adjust_best_widths
    pk,     \* the frame of pack_rectangles
    out     \* what has been printed: the per-request report lines

vars == <<pc, cmw, mn, adj, pk, out>>

---------------------------------------------------------------------------
(* Bounds of the model *)

\* counts offered to compute_min_width on its own run from 1 to MaxCount
MaxCount == 12
\* longest sequence of widths offered to adjust_best_widths on its own
MaxWidths == 2
\* longest sequence of strips offered to pack_rectangles on its own
MaxStrips == 4

---------------------------------------------------------------------------
(* Program constants *)

LARGE_RECT_WIDTH == 360
HEIGHT == 36

---------------------------------------------------------------------------
(* Arithmetic *)

\* F applied to the value of x: x is evaluated once, before F, however often
\* F uses it
Bind(x, F(_)) == CHOOSE r \in {F(v) : v \in {x}} : TRUE

Bind2(x, y, F(_, _)) == CHOOSE r \in {F(v, w) : v \in {x}, w \in {y}} : TRUE

(* Natural numbers of any size: little-endian sequences of limbs in base    *)
(* 2^14, without leading zero limbs; <<>> is 0.                             *)
Base == 128 * 128

Limb(a, i) == IF 1 <= i /\ i <= Len(a) THEN a[i] ELSE 0

RECURSIVE BTop(_, _)
\* the largest i <= k with a[i] # 0, or 0
BTop(a, k) == IF k = 0 THEN 0 ELSE IF a[k] # 0 THEN k ELSE BTop(a, k - 1)

\* a without its leading zero limbs
BNorm(a) == Bind(a, LAMBDA v : SubSeq(v, 1, BTop(v, Len(v))))

RECURSIVE BFromInt(_)
BFromInt(k) == IF k = 0 THEN <<>> ELSE <<k % Base>> \o BFromInt(k \div Base)

\* a as an integer, for a < Base^3
BToInt(a) == Bind(a, LAMBDA v : Limb(v, 1) + Base * (Limb(v, 2) + Base * Limb(v, 3)))

RECURSIVE BCmpFrom(_, _, _)
BCmpFrom(a, b, k) ==
    IF k = 0 THEN 0
    ELSE IF a[k] < b[k] THEN -1
    ELSE IF a[k] > b[k] THEN 1
    ELSE BCmpFrom(a, b, k - 1)

\* -1, 0, 1 as a < b, a = b, a > b
BCmp(a, b) ==
    Bind2(a, b, LAMBDA v, w :
        IF Len(v) < Len(w) THEN -1
        ELSE IF Len(v) > Len(w) THEN 1
        ELSE BCmpFrom(v, w, Len(v)))

RECURSIVE BAddFrom(_, _, _, _)
\* the limbs i, i + 1, ... of a + b, c the carry into limb i
BAddFrom(a, b, i, c) ==
    IF i > Len(a) /\ i > Len(b) THEN (IF c = 0 THEN <<>> ELSE <<c>>)
    ELSE Bind(Limb(a, i) + Limb(b, i) + c, LAMBDA t :
             <<t % Base>> \o BAddFrom(a, b, i + 1, t \div Base))

BAdd(a, b) == Bind2(a, b, LAMBDA v, w : BAddFrom(v, w, 1, 0))

RECURSIVE BSubFrom(_, _, _, _)
\* the limbs i, i + 1, ... of a - b, c the borrow from limb i
BSubFrom(a, b, i, c) ==
    IF i > Len(a) THEN <<>>
    ELSE Bind(a[i] - Limb(b, i) - c, LAMBDA t :
             <<t % Base>> \o BSubFrom(a, b, i + 1, IF t < 0 THEN 1 ELSE 0))

\* a - b for a >= b
BSub(a, b) == BNorm(Bind2(a, b, LAMBDA v, w : BSubFrom(v, w, 1, 0)))

RECURSIVE BMulSmallFrom(_, _, _, _)
BMulSmallFrom(a, k, i, c) ==
    IF i > Len(a) THEN (IF c = 0 THEN <<>> ELSE <<c>>)
    ELSE Bind(a[i] * k + c, LAMBDA t :
             <<t % Base>> \o BMulSmallFrom(a, k, i + 1, t \div Base))

\* a * k for 0 <= k < Base
BMulSmall(a, k) ==
    Bind2(a, k, LAMBDA v, w : IF w = 0 THEN <<>> ELSE BMulSmallFrom(v, w, 1, 0))

\* a * Base
BShiftLimb(a) == Bind(a, LAMBDA v : IF v = <<>> THEN v ELSE <<0>> \o v)

RECURSIVE BMulFrom(_, _, _)
\* a * (b[j] + b[j + 1] * Base + ...)
BMulFrom(a, b, j) ==
    IF j > Len(b) THEN <<>>
    ELSE BAdd(BMulSmall(a, b[j]), BShiftLimb(BMulFrom(a, b, j + 1)))

BMul(a, b) == Bind2(a, b, LAMBDA v, w : IF v = <<>> THEN v ELSE BMulFrom(v, w, 1))

\* a * 2^n
BShl(a, n) ==
    Bind2(a, n, LAMBDA v, w :
        IF v = <<>> THEN v
        ELSE [k \in 1..(w \div 14) |-> 0] \o BMulSmall(v, 2 ^ (w % 14)))

\* floor(a / 2^s) for 0 <= s < 14
BShrBits(a, s) ==
    Bind2(a, s, LAMBDA v, w :
        [i \in 1..Len(v) |->
            (v[i] \div (2 ^ w)) + (Limb(v, i + 1) % (2 ^ w)) * (2 ^ (14 - w))])

\* floor(a / 2^n)
BShr(a, n) ==
    Bind2(a, n, LAMBDA v, w :
        IF w \div 14 >= Len(v) THEN <<>>
        ELSE BNorm(BShrBits(SubSeq(v, (w \div 14) + 1, Len(v)), w % 14)))

RECURSIVE IntBits(_)
IntBits(k) == IF k = 0 THEN 0 ELSE 1 + IntBits(k \div 2)

\* the number of bits of a
BBitLen(a) ==
    Bind(a, LAMBDA v : IF v = <<>> THEN 0 ELSE 14 * (Len(v) - 1) + IntBits(v[Len(v)]))

BIsOdd(a) == Limb(a, 1) % 2 = 1

RECURSIVE BQuotDigit(_, _, _)
\* the largest q <= qhat with d * q <= r
BQuotDigit(r, d, qhat) ==
    IF BCmp(BMulSmall(d, qhat), r) > 0 THEN BQuotDigit(r, d, qhat - 1) ELSE qhat

\* an estimate, never too small, of floor(r / d) for r < d * Base and d with
\* its top limb >= Base / 2: the top two limbs of r by the top limb of d
BQuotEstimate(r, d) ==
    LET top == IF Len(r) > Len(d) THEN r[Len(r)] * Base + r[Len(r) - 1]
               ELSE IF Len(r) = Len(d) THEN r[Len(r)]
               ELSE 0
        est == top \div d[Len(d)]
    IN IF est >= Base THEN Base - 1 ELSE est

RECURSIVE BDivFrom(_, _, _, _)
\* long division: the limbs n[i], n[i - 1], ..., n[1] are brought down one by
\* one onto the running remainder r < d
BDivFrom(n, d, i, r) ==
    IF i = 0 THEN [q |-> <<>>, r |-> r]
    ELSE Bind(BNorm(<<n[i]>> \o r), LAMBDA r1 :
         Bind(BQuotDigit(r1, d, BQuotEstimate(r1, d)), LAMBDA qd :
         Bind(BDivFrom(n, d, i - 1, BSub(r1, BMulSmall(d, qd))), LAMBDA rest :
              [q |-> rest.q \o <<qd>>, r |-> rest.r])))

\* quotient and remainder of n by d, d with its top limb >= Base / 2
BDivMod(n, d) ==
    Bind2(n, d, LAMBDA v, w :
        Bind(BDivFrom(v, w, Len(v), <<>>), LAMBDA res :
             [q |-> BNorm(res.q), r |-> res.r]))

(* Dyadic rationals s * m * 2^e (s the sign, m a natural number), exact *)
Dy(s, m, e) == [s |-> s, m |-> m, e |-> e]

Zero == Dy(0, <<>>, 0)

Neg(x) == Bind(x, LAMBDA v : Dy(0 - v.s, v.m, v.e))

\* s1 * a * 2^e + s2 * b * 2^e for naturals a, b and signs s1, s2 other than 0
ExactSigned(s1, a, s2, b, e) ==
    Bind2(a, b, LAMBDA v, w :
        IF s1 = s2 THEN Dy(s1, BAdd(v, w), e)
        ELSE Bind(BCmp(v, w), LAMBDA c :
                 IF c = 0 THEN Zero
                 ELSE IF c > 0 THEN Dy(s1, BSub(v, w), e)
                 ELSE Dy(s2, BSub(w, v), e)))

ExactAdd(x, y) ==
    Bind2(x, y, LAMBDA v, w :
        IF v.s = 0 THEN w
        ELSE IF w.s = 0 THEN v
        ELSE Bind(IF v.e < w.e THEN v.e ELSE w.e, LAMBDA e :
                 ExactSigned(v.s, BShl(v.m, v.e - e), w.s, BShl(w.m, w.e - e), e)))

ExactSub(x, y) == ExactAdd(x, Neg(y))

ExactMul(x, y) ==
    Bind2(x, y, LAMBDA v, w :
        IF v.s = 0 \/ w.s = 0 THEN Zero ELSE Dy(v.s * w.s, BMul(v.m, w.m), v.e + w.e))

(* Doubles: the dyadic rationals with a 53-bit m, and 0 *)

\* s * m * 2^e for m of len > 53 bits, rounded to 53 bits, ties to even
RoundOff(s, m, e, len) ==
    Bind(BShr(m, len - 53), LAMBDA q :
    Bind(BCmp(BSub(m, BShl(q, len - 53)), BShl(<<1>>, len - 54)), LAMBDA c :
    Bind(IF c > 0 \/ (c = 0 /\ BIsOdd(q)) THEN BAdd(q, <<1>>) ELSE q, LAMBDA up :
         IF BBitLen(up) > 53 THEN Dy(s, BShr(up, 1), e + len - 52)
         ELSE Dy(s, up, e + len - 53))))

\* the double nearest to x, ties to even
Round(x) ==
    Bind(x, LAMBDA v :
        IF v.s = 0 THEN Zero
        ELSE Bind(BBitLen(v.m), LAMBDA len :
                 IF len <= 53 THEN Dy(v.s, BShl(v.m, 53 - len), v.e - (53 - len))
                 ELSE RoundOff(v.s, v.m, v.e, len)))

\* -1, 0, 1 as x < y, x = y, x > y, for doubles
Cmp(x, y) ==
    Bind2(x, y, LAMBDA v, w :
        IF v.s # w.s THEN (IF v.s < w.s THEN -1 ELSE 1)
        ELSE IF v.s = 0 THEN 0
        ELSE IF v.e # w.e THEN (IF v.e < w.e THEN 0 - v.s ELSE v.s)
        ELSE v.s * BCmp(v.m, w.m))

Less(x, y) == Cmp(x, y) < 0
Leq(x, y) == Cmp(x, y) <= 0

\* x + y; an addend more than 2^64 times smaller than the other is absorbed
Add(x, y) ==
    Bind2(x, y, LAMBDA v, w :
        IF v.s # 0 /\ w.s # 0 /\ v.e - w.e > 64 THEN v
        ELSE IF v.s # 0 /\ w.s # 0 /\ w.e - v.e > 64 THEN w
        ELSE Round(ExactAdd(v, w)))

Sub(x, y) == Add(x, Neg(y))

Mul(x, y) == Round(ExactMul(x, y))

\* x / y for y # 0: 57 or 58 quotient bits and a sticky bit, rounded
Div(x, y) ==
    Bind2(x, y, LAMBDA v, w :
        IF v.s = 0 THEN Zero
        ELSE Bind(BDivMod(BShl(v.m, 59), BShl(w.m, 3)), LAMBDA res :
                 Round(Dy(v.s * w.s,
                          BAdd(BShl(res.q, 1), IF res.r = <<>> THEN <<>> ELSE <<1>>),
                          v.e - w.e - 57))))

\* (double)k for an int k
FromInt(k) ==
    IF k = 0 THEN Zero
    ELSE IF k > 0 THEN Round(Dy(1, BFromInt(k), 0))
    ELSE Round(Dy(-1, BFromInt(0 - k), 0))

\* (int)x: truncation toward zero
ToInt(x) ==
    Bind(x, LAMBDA v :
        IF v.s = 0 THEN 0
        ELSE IF v.e >= 0 THEN v.s * BToInt(BShl(v.m, v.e))
        ELSE v.s * BToInt(BShr(v.m, 0 - v.e)))

\* sqrt(3.0): the double 0x1.BB67AE8584CAAp+0
Sqrt3 == Dy(1, <<3242,8545,10158,1773>>, -52)

\* k * x for an int k: k is converted to double, then multiplied
Scale(k, x) == Mul(FromInt(k), x)

\* x * sqrt(3)
Sqrt3Times(x) == Mul(x, Sqrt3)

\* the decimal literal n / d, d a power of ten: the double nearest to it
Dec(n, d) == Div(FromInt(n), FromInt(d))

Sign(x) == x.s

\* (int)(x / y)
IntQuot(x, y) == ToInt(Div(x, y))

\* fmin(x, y)
Fmin(x, y) == Bind2(x, y, LAMBDA v, w : IF Less(w, v) THEN w ELSE v)

RECURSIVE SumTo(_, _)
\* s[1] + ... + s[k] added from the left, starting from 0
SumTo(s, k) == IF k = 0 THEN Zero ELSE Add(SumTo(s, k - 1), s[k])

SumSeq(s) == SumTo(s, Len(s))

\* exact comparison and sum of dyadic rationals, not rounded
ExactCmp(x, y) == ExactSub(x, y).s

RECURSIVE ExactSum(_)
ExactSum(s) == IF s = <<>> THEN Zero ELSE ExactAdd(Head(s), ExactSum(Tail(s)))

---------------------------------------------------------------------------
(* compute_min_width *)

\* A flat-topped search with no rows grows width_flat without end; the model
\* follows it while width_flat is below MaxFlatSteps * 2*r and no further.  A
\* search with at least one row ends by itself and is followed to its end.
MaxFlatSteps == 40

\* the frame at entry: the parameters bound, the locals not yet assigned
CmwFrame(radius, height, num_circles) ==
    [r |-> radius, h |-> FromInt(height), n |-> num_circles,
     rows_flat |-> 0, total_circles_flat |-> 0, width_flat |-> Zero,
     rows_pointy |-> 0, columns_pointy |-> 0, total_circles_pointy |-> 0,
     width_pointy |-> Zero,
     rows_regular |-> 0, columns_regular |-> 0, width_regular |-> Zero,
     best_width |-> Zero, smallest_width |-> 0]

NoCmwFrame == CmwFrame(Zero, 0, 0)

\* a variant of RowsFlat: the rows counted with the hexagonal row spacing
\* r * sqrt(3) instead of 2 * r
RowsFlatHex(h, r) == IntQuot(h, Sqrt3Times(r))

\* int rows_flat = (int)(h / (2 * r))
RowsFlat(h, r) == IntQuot(h, Scale(2, r))

\* the circles of row i of a flat-topped packing of the given width
FlatRowCircles(i, width_flat, r) ==
    IF i % 2 = 0 THEN IntQuot(width_flat, Scale(2, r))
    ELSE IntQuot(Sub(width_flat, r), Scale(2, r))

RECURSIVE FlatTotal(_, _, _)
\* the inner for loop of the flat-topped search, over rows 0 .. rows - 1
FlatTotal(rows, width_flat, r) ==
    IF rows <= 0 THEN 0
    ELSE FlatTotal(rows - 1, width_flat, r) + FlatRowCircles(rows - 1, width_flat, r)

\* width_flat += 2 * r
FlatGrow(width_flat, r) == Add(width_flat, Scale(2, r))

\* the passes of the flat-topped loop the model follows: all of them when
\* there is a row to fill, the first MaxFlatSteps when there is none
WithinFlatSteps(rows_flat, width_flat, r) ==
    rows_flat > 0 \/ Less(width_flat, Scale(MaxFlatSteps, Scale(2, r)))

\* int rows_pointy = (int)(h / (sqrt(3) * r))
RowsPointy(h, r) == IntQuot(h, Sqrt3Times(r))

\* the circles of column i of a pointy-topped packing
PointyColumnCircles(i, rows_pointy) ==
    IF i % 2 = 0 THEN rows_pointy
    ELSE (IF rows_pointy > 0 THEN rows_pointy - 1 ELSE 0)

RECURSIVE PointyTotal(_, _)
\* the inner for loop of the pointy-topped search, over columns 0 .. columns - 1
PointyTotal(columns, rows_pointy) ==
    IF columns <= 0 THEN 0
    ELSE PointyTotal(columns - 1, rows_pointy)
           + PointyColumnCircles(columns - 1, rows_pointy)

\* a variant of WidthPointy: columns_pointy taken for the number of columns
\* needed, one spacing per column after the first
WidthPointyColumns(columns_pointy, r) ==
    IF columns_pointy = 1 THEN Scale(2, r)
    ELSE Add(Scale(2, r), Sqrt3Times(Scale(columns_pointy - 1, r)))

\* double width_pointy = (columns_pointy == 1) ? 2*r : (2*r + (columns_pointy - 2)*r*sqrt(3))
WidthPointy(columns_pointy, r) ==
    IF columns_pointy = 1 THEN Scale(2, r)
    ELSE Add(Scale(2, r), Sqrt3Times(Scale(columns_pointy - 2, r)))

\* rows_regular, clamped to at least 1
RowsRegular(h, r) ==
    LET rows == IntQuot(h, Scale(2, r)) IN IF rows < 1 THEN 1 ELSE rows

\* ceiling division
ColumnsRegular(n, rows_regular) == (n + rows_regular - 1) \div rows_regular

\* double width_regular = 2 * r * columns_regular
WidthRegular(r, columns_regular) == Mul(Scale(2, r), FromInt(columns_regular))

\* a variant of BestWidth: the largest of the three
BestWidthMax(width_flat, width_pointy, width_regular) ==
    LET Fmax(x, y) == IF Less(x, y) THEN y ELSE x
    IN Fmax(Fmax(width_flat, width_pointy), width_regular)

\* *best_width = fmin(fmin(width_flat, width_pointy), width_regular)
BestWidth(width_flat, width_pointy, width_regular) ==
    Fmin(Fmin(width_flat, width_pointy), width_regular)

\* a variant of SmallestWidth: the two hexagonal widths compared with each
\* other only
SmallestWidthPairwise(width_flat, width_pointy, width_regular) ==
    IF Less(width_flat, width_pointy) THEN 1
    ELSE IF Less(width_pointy, width_flat) THEN 2
    ELSE 0

\* the if / else if that sets smallest_width: 1 flat, 2 pointy, 0 regular
SmallestWidth(width_flat, width_pointy, width_regular) ==
    IF Less(width_flat, width_pointy) /\ Less(width_flat, width_regular) THEN 1
    ELSE IF Less(width_pointy, width_flat) /\ Less(width_pointy, width_regular) THEN 2
    ELSE 0

\* the line the switch prints
ReportLine(f) ==
    CASE f.smallest_width = 1 -> [packing |-> "flat-topped", width |-> f.width_flat]
      [] f.smallest_width = 2 -> [packing |-> "pointy-topped", width |-> f.width_pointy]
      [] OTHER -> [packing |-> "regular", width |-> f.width_regular]

\* lines 27-34: the flat-topped search is set up
CmwEntry ==
    /\ pc = "cmw_entry"
    /\ cmw' = [cmw EXCEPT !.rows_flat = RowsFlat(cmw.h, cmw.r),
                          !.total_circles_flat = 0,
                          !.width_flat = Zero]
    /\ pc' = "flat_test"
    /\ UNCHANGED <<mn, adj, pk, out>>

\* line 35: while (total_circles_flat < n); on exit lines 44-46
FlatTest ==
    /\ pc = "flat_test"
    /\ \/ /\ cmw.total_circles_flat < cmw.n
          /\ pc' = "flat_body"
          /\ UNCHANGED cmw
       \/ /\ ~(cmw.total_circles_flat < cmw.n)
          /\ cmw' = [cmw EXCEPT !.rows_pointy = RowsPointy(cmw.h, cmw.r),
                                !.columns_pointy = 1,
                                !.total_circles_pointy = 0]
          /\ pc' = "pointy_test"
    /\ UNCHANGED <<mn, adj, pk, out>>

\* lines 36-40: one pass of the flat-topped loop
FlatBody ==
    /\ pc = "flat_body"
    /\ WithinFlatSteps(cmw.rows_flat, cmw.width_flat, cmw.r)
    /\ LET w == FlatGrow(cmw.width_flat, cmw.r) IN
         cmw' = [cmw EXCEPT !.width_flat = w,
                            !.total_circles_flat = FlatTotal(cmw.rows_flat, w, cmw.r)]
    /\ pc' = "flat_test"
    /\ UNCHANGED <<mn, adj, pk, out>>

\* line 47: while (total_circles_pointy < n); on exit line 54
PointyTest ==
    /\ pc = "pointy_test"
    /\ \/ /\ cmw.total_circles_pointy < cmw.n
          /\ pc' = "pointy_body"
          /\ UNCHANGED cmw
       \/ /\ ~(cmw.total_circles_pointy < cmw.n)
          /\ cmw' = [cmw EXCEPT !.width_pointy = WidthPointy(cmw.columns_pointy, cmw.r)]
          /\ pc' = "regular"
    /\ UNCHANGED <<mn, adj, pk, out>>

\* lines 48-52: one pass of the pointy-topped loop
PointyBody ==
    /\ pc = "pointy_body"
    /\ cmw' = [cmw EXCEPT
                 !.total_circles_pointy = PointyTotal(cmw.columns_pointy, cmw.rows_pointy),
                 !.columns_pointy = cmw.columns_pointy + 1]
    /\ pc' = "pointy_test"
    /\ UNCHANGED <<mn, adj, pk, out>>

\* lines 57-63: the regular grid and the minimum
Regular ==
    /\ pc = "regular"
    /\ LET rows == RowsRegular(cmw.h, cmw.r)
           cols == ColumnsRegular(cmw.n, rows)
           wreg == WidthRegular(cmw.r, cols)
       IN cmw' = [cmw EXCEPT
                    !.rows_regular = rows,
                    !.columns_regular = cols,
                    !.width_regular = wreg,
                    !.best_width = BestWidth(cmw.width_flat, cmw.width_pointy, wreg)]
    /\ pc' = "report"
    /\ UNCHANGED <<mn, adj, pk, out>>

\* lines 67-87: the strategy is chosen and its line printed; the function returns
Report ==
    /\ pc = "report"
    /\ LET f == [cmw EXCEPT !.smallest_width =
                     SmallestWidth(cmw.width_flat, cmw.width_pointy, cmw.width_regular)]
       IN /\ cmw' = f
          /\ out' = Append(out, ReportLine(f))
    /\ pc' = "returned"
    /\ UNCHANGED <<mn, adj, pk>>

SolverNext == CmwEntry \/ FlatTest \/ FlatBody \/ PointyTest \/ PointyBody \/ Regular \/ Report

---------------------------------------------------------------------------
(* adjust_best_widths *)

\* adjust_best_widths works on main's best_widths and num_radii through its
\* two pointers; the frame holds its locals
AdjFrame(num_radii) ==
    [new_num_radii |-> num_radii, adjusted_widths |-> <<>>, idx |-> 0, i |-> 0]

NoAdjFrame == AdjFrame(0)

\* a variant of SplitPieces: the remainder emitted when it is >= 0
SplitPiecesAlwaysRemainder(w) ==
    IF Less(FromInt(LARGE_RECT_WIDTH), w)
    THEN LET parts == IntQuot(w, FromInt(LARGE_RECT_WIDTH))
             remainder == Sub(w, FromInt(parts * LARGE_RECT_WIDTH))
         IN [j \in 1..parts |-> FromInt(LARGE_RECT_WIDTH)] \o <<remainder>>
    ELSE <<w>>

\* lines 151-162: what one width adds to adjusted_widths
SplitPieces(w) ==
    IF Less(FromInt(LARGE_RECT_WIDTH), w)
    THEN LET parts == IntQuot(w, FromInt(LARGE_RECT_WIDTH))
             remainder == Sub(w, FromInt(parts * LARGE_RECT_WIDTH))
         IN [j \in 1..parts |-> FromInt(LARGE_RECT_WIDTH)]
              \o (IF Sign(remainder) > 0 THEN <<remainder>> ELSE <<>>)
    ELSE <<w>>

\* double adjusted_widths[new_num_radii * 2]
AdjustedCapacity(new_num_radii) == new_num_radii * 2

\* lines 166-168: adjusted_widths[0 .. idx-1] copied over best_widths
WriteBack(best_widths, adjusted_widths, idx) ==
    [k \in 1..(IF idx > Len(best_widths) THEN idx ELSE Len(best_widths)) |->
        IF k <= idx THEN adjusted_widths[k] ELSE best_widths[k]]

\* lines 150-163, one pass: the pieces of best_widths[i] are written at idx,
\* idx + 1, ...  A write past the end of adjusted_widths is undefined: the
\* run is killed, or the write lands in memory nothing else reads and the run
\* goes on.
AdjustStep ==
    /\ pc = "adjust_loop"
    /\ adj.i < mn.num_radii
    /\ LET pieces == SplitPieces(mn.best_widths[adj.i + 1])
           idx2 == adj.idx + Len(pieces)
       IN /\ adj' = [adj EXCEPT !.adjusted_widths = adj.adjusted_widths \o pieces,
                                !.idx = idx2,
                                !.i = adj.i + 1]
          /\ pc' \in IF idx2 > AdjustedCapacity(adj.new_num_radii)
                     THEN {"adjust_loop", "crashed"}
                     ELSE {"adjust_loop"}
    /\ UNCHANGED <<cmw, mn, pk, out>>

\* the double x with the low 32 bits of its significand replaced by the int k
LowWordSet(x, k) ==
    IF x.s = 0 THEN x
    ELSE Dy(x.s, BAdd(BShl(BShr(x.m, 32), 32), BFromInt(k)), x.e)

\* the low 32 bits of the double x, which are the low 32 bits of its significand
LowWord(x) == IF x.s = 0 THEN <<>> ELSE BSub(x.m, BShl(BShr(x.m, 32), 32))

\* the double x with its high 32 bits replaced by the int k, 0 < k < 2^20: the
\* store writes 4 bytes, the low word stays, and the result is the subnormal
\* (k * 2^32 + low word) * 2^-1074
HighWordSet(x, k) == Round(Dy(1, BAdd(BShl(BFromInt(k), 32), LowWord(x)), -1074))

\* what an element written past the end of the caller's array may hold after
\* lines 166-169.  Its bytes belong to other objects of the caller (num_radii,
\* loop counters), so the behaviour is undefined: the element keeps the piece,
\* or the int stored at line 169 lands on its low word, or on its high word.
PastTheEnd(piece, idx) == {piece, LowWordSet(piece, idx), HighWordSet(piece, idx)}

RECURSIVE Choices(_)
\* the sequences that take their k-th element from the k-th set
Choices(ss) ==
    IF ss = <<>> THEN {<<>>}
    ELSE {<<x>> \o rest : x \in Head(ss), rest \in Choices(Tail(ss))}

\* the contents best_widths may have after lines 166-169, size the length it
\* was declared with
WriteBackOutcomes(best_widths, adjusted_widths, idx, size) ==
    LET copied == WriteBack(best_widths, adjusted_widths, idx)
    IN Choices([k \in 1..Len(copied) |->
                   IF k > size /\ k <= idx THEN PastTheEnd(copied[k], idx)
                   ELSE {copied[k]}])

\* lines 166-169: the copy back and *num_radii = idx.  A write past the end of
\* the caller's best_widths (mn.size elements) is undefined: the run is
\* killed, or it goes on with the elements past the end as PastTheEnd says.
AdjustWriteBack ==
    /\ pc = "adjust_loop"
    /\ adj.i = mn.num_radii
    /\ \E bw \in WriteBackOutcomes(mn.best_widths, adj.adjusted_widths, adj.idx, mn.size) :
         mn' = [mn EXCEPT !.best_widths = bw, !.num_radii = adj.idx]
    /\ pc' \in IF adj.idx > mn.size THEN {"adjusted", "crashed"} ELSE {"adjusted"}
    /\ UNCHANGED <<cmw, adj, pk, out>>

SplitNext == AdjustStep \/ AdjustWriteBack

---------------------------------------------------------------------------
(* pack_rectangles *)

RECURSIVE InsertDesc(_, _)
\* x put into the descending sequence s, before the first element smaller than x
InsertDesc(x, s) ==
    IF s = <<>> THEN <<x>>
    ELSE IF Less(Head(s), x) THEN <<x>> \o s
    ELSE <<Head(s)>> \o InsertDesc(x, Tail(s))

RECURSIVE SortDesc(_)
\* qsort with compare_desc: equal doubles cannot be told apart, so the
\* result does not depend on the sorting method
SortDesc(s) == IF s = <<>> THEN <<>> ELSE InsertDesc(Head(s), SortDesc(Tail(s)))

\* the frame at entry; given is the array as the caller handed it over, kept
\* for reference (the sort overwrites it in place)
PkFrame(widths) ==
    [small_widths |-> widths, num_rectangles |-> Len(widths), given |-> widths,
     remaining_space |-> <<>>, large_rect_count |-> 0,
     packed_rects |-> <<>>, packed_counts |-> <<>>,
     i |-> 0, total_waste |-> Zero]

NoPkFrame == PkFrame(<<>>)

\* a variant of Fits: any rectangle with space left takes the width
FitsSomeRoom(remaining, width) == Sign(remaining) > 0

\* the test of line 108
Fits(remaining, width) == Leq(width, remaining)

RECURSIVE ScanFrom(_, _, _, _)
\* lines 107-114: the first j >= from with room for the width, 0 when none
ScanFrom(remaining_space, large_rect_count, width, from) ==
    IF from > large_rect_count THEN 0
    ELSE IF Fits(remaining_space[from], width) THEN from
    ELSE ScanFrom(remaining_space, large_rect_count, width, from + 1)

\* a variant of FirstFit: the scan starts at the second rectangle
FirstFitSkipFirst(remaining_space, large_rect_count, width) ==
    ScanFrom(remaining_space, large_rect_count, width, 2)

FirstFit(remaining_space, large_rect_count, width) ==
    ScanFrom(remaining_space, large_rect_count, width, 1)

\* line 118
NewRemaining(width) == Sub(FromInt(LARGE_RECT_WIDTH), width)

\* line 92 seen from the caller: small_widths is the caller's array, and
\* qsort sorts its first n elements in place
SortedInPlace(array, n) == SortDesc(SubSeq(array, 1, n)) \o SubSeq(array, n + 1, Len(array))

\* lines 92-101: the sort, and packed_counts set to 0.  Called from main
\* (mn.size > 0), small_widths is main's best_widths.
PackEntry ==
    /\ pc = "pack_entry"
    /\ pk' = [pk EXCEPT !.small_widths = SortDesc(pk.small_widths),
                        !.large_rect_count = 0,
                        !.packed_counts = [j \in 1..pk.num_rectangles |-> 0],
                        !.packed_rects = [j \in 1..pk.num_rectangles |-> <<>>]]
    /\ mn' = IF mn.size > 0
             THEN [mn EXCEPT !.best_widths = SortedInPlace(@, pk.num_rectangles)]
             ELSE mn
    /\ pc' = "pack_loop"
    /\ UNCHANGED <<cmw, adj, out>>

\* a variant of Place: placed is not set, so a width that went into an
\* existing rectangle also opens a new one
PlaceNoFlag(f, w) ==
    LET j == FirstFit(f.remaining_space, f.large_rect_count, w)
        c == f.large_rect_count + 1
        g == IF j # 0
             THEN [f EXCEPT !.remaining_space[j] = Sub(@, w),
                            !.packed_rects[j] = Append(@, w),
                            !.packed_counts[j] = @ + 1]
             ELSE f
    IN [g EXCEPT !.remaining_space = Append(@, NewRemaining(w)),
                 !.packed_rects[c] = Append(@, w),
                 !.packed_counts[c] = @ + 1,
                 !.large_rect_count = c]

\* lines 104-121: the frame after the width is placed, in the first large
\* rectangle with room for it or else in a new one
Place(f, w) ==
    LET j == FirstFit(f.remaining_space, f.large_rect_count, w)
        c == f.large_rect_count + 1
    IN IF j # 0
       THEN [f EXCEPT !.remaining_space[j] = Sub(@, w),
                      !.packed_rects[j] = Append(@, w),
                      !.packed_counts[j] = @ + 1]
       ELSE [f EXCEPT !.remaining_space = Append(@, NewRemaining(w)),
                      !.packed_rects[c] = Append(@, w),
                      !.packed_counts[c] = @ + 1,
                      !.large_rect_count = c]

\* lines 103-122, one pass: small_widths[i] is placed
PackStep ==
    /\ pc = "pack_loop"
    /\ pk.i < pk.num_rectangles
    /\ pk' = [Place(pk, pk.small_widths[pk.i + 1]) EXCEPT !.i = @ + 1]
    /\ pc' = "pack_loop"
    /\ UNCHANGED <<cmw, mn, adj, out>>

\* lines 124-139: the waste is summed and the result printed
PackReport ==
    /\ pc = "pack_loop"
    /\ pk.i = pk.num_rectangles
    /\ pk' = [pk EXCEPT !.total_waste = SumSeq(pk.remaining_space)]
    /\ pc' = "packed"
    /\ UNCHANGED <<cmw, mn, adj, out>>

PackNext == PackEntry \/ PackStep \/ PackReport

---------------------------------------------------------------------------
(* main *)

\* k / 2 as a double
Half(k) == Div(FromInt(k), FromInt(2))

\* double radii[] of main, in halves
MainRadii ==
    <<Half(9), Half(18), Half(6), Half(12), Half(3), Half(6), Half(12), Half(12),
      Half(6), Half(4), Half(3), Half(12), Half(12), Half(5), Half(12), Half(12),
      Half(3), Half(5), Half(12), Half(12), Half(12), Half(12)>>

\* int num_circles[] of main
MainCircles ==
    <<25, 15, 50, 10, 120, 10, 100, 4, 50, 50, 15, 40, 40, 50, 7, 50, 100, 40, 2, 8, 12, 4>>

\* the frame of main; size is the length best_widths was declared with, and
\* best_widths holds the elements written so far
MnFrame(radii, num_circles, best_widths, size) ==
    [radii |-> radii, num_circles |-> num_circles, num_radii |-> size,
     best_widths |-> best_widths, size |-> size, i |-> 0]

NoMnFrame == MnFrame(<<>>, <<>>, <<>>, 0)

\* line 181: the call of compute_min_width for request i
MainCall ==
    /\ pc = "main_loop"
    /\ mn.i < mn.num_radii
    /\ cmw' = CmwFrame(mn.radii[mn.i + 1], HEIGHT, mn.num_circles[mn.i + 1])
    /\ pc' = "cmw_entry"
    /\ UNCHANGED <<mn, adj, pk, out>>

\* the return of that call: *best_width is best_widths[i]
MainStore ==
    /\ pc = "returned"
    /\ mn' = [mn EXCEPT !.best_widths = Append(@, cmw.best_width), !.i = @ + 1]
    /\ pc' = "main_loop"
    /\ UNCHANGED <<cmw, adj, pk, out>>

\* line 186 and lines 144-148: adjust_best_widths is entered
MainAdjust ==
    /\ pc = "main_loop"
    /\ mn.i = mn.num_radii
    /\ adj' = AdjFrame(mn.num_radii)
    /\ pc' = "adjust_loop"
    /\ UNCHANGED <<cmw, mn, pk, out>>

\* lines 188-195: pack_rectangles(best_widths, num_radii)
MainPack ==
    /\ pc = "adjusted"
    /\ pk' = PkFrame(SubSeq(mn.best_widths, 1, mn.num_radii))
    /\ pc' = "pack_entry"
    /\ UNCHANGED <<cmw, mn, adj, out>>

MainNext == MainCall \/ MainStore \/ MainAdjust \/ MainPack

---------------------------------------------------------------------------
(* Specifications *)

\* the program as it is: main on its own arrays
Init ==
    /\ pc = "main_loop"
    /\ mn = MnFrame(MainRadii, MainCircles, <<>>, Len(MainRadii))
    /\ cmw = NoCmwFrame
    /\ adj = NoAdjFrame
    /\ pk = NoPkFrame
    /\ out = <<>>

Next == MainNext \/ SolverNext \/ SplitNext \/ PackNext

Spec == Init /\ [][Next]_vars

\* compute_min_width on its own: the radii of main, radii too large for the
\* height, and the radii 5.2 and 4.04, whose multiples are not doubles; three
\* heights; counts 1 .. MaxCount
SolverRadii ==
    {Half(k) : k \in {3, 4, 5, 6, 9, 12, 18, 24, 40}} \cup {Dec(52, 10), Dec(404, 100)}

SolverHeights == {18, 20, 36}

SolverInit ==
    /\ pc = "cmw_entry"
    /\ \E radius \in SolverRadii, height \in SolverHeights, num \in 1..MaxCount :
         cmw = CmwFrame(radius, height, num)
    /\ mn = NoMnFrame
    /\ adj = NoAdjFrame
    /\ pk = NoPkFrame
    /\ out = <<>>

SolverSpec == SolverInit /\ [][SolverNext]_vars

\* a width of the pointy-topped form, 2 * r + k * r * sqrt(3)
PointyForm(r, k) == Add(Scale(2, r), Sqrt3Times(Scale(k, r)))

\* adjust_best_widths on its own: 1 .. MaxWidths widths: multiples of 45 up
\* to 1170, 750 and 408, three widths of the pointy-topped form, the double
\* next below 720 and the double next above 360
SplitWidths ==
    {FromInt(45 * k) : k \in 1..26}
      \cup {FromInt(750), FromInt(408),
            PointyForm(Half(12), 39), PointyForm(Half(18), 46), PointyForm(Half(3), 4),
            Sub(FromInt(720), Dy(1, <<1>>, -43)), Add(FromInt(360), Dy(1, <<1>>, -44))}

SeqsUpTo(S, len) == UNION {[1..k -> S] : k \in 1..len}

SplitInit ==
    /\ pc = "adjust_loop"
    /\ \E ws \in SeqsUpTo(SplitWidths, MaxWidths) :
         /\ mn = MnFrame(<<>>, <<>>, ws, Len(ws))
         /\ adj = AdjFrame(Len(ws))
    /\ cmw = NoCmwFrame
    /\ pk = NoPkFrame
    /\ out = <<>>

SplitSpec == SplitInit /\ [][SplitNext]_vars

\* pack_rectangles on its own: 1 .. MaxStrips strips, none wider than
\* LARGE_RECT_WIDTH; the last two are widths main's requests produce
\* (167.88... and 55.76...)
PackStrips ==
    {FromInt(360), FromInt(240), FromInt(180), FromInt(120), FromInt(72),
     FromInt(30), PointyForm(Half(12), 15), PointyForm(Half(9), 6)}

PackInit ==
    /\ pc = "pack_entry"
    /\ \E ws \in SeqsUpTo(PackStrips, MaxStrips) : pk = PkFrame(ws)
    /\ mn = NoMnFrame
    /\ cmw = NoCmwFrame
    /\ adj = NoAdjFrame
    /\ out = <<>>

PackSpec == PackInit /\ [][PackNext]_vars


---------------------------------------------------------------------------
(* Properties of pack_rectangles, checked under PackSpec *)

Capacity == FromInt(LARGE_RECT_WIDTH)

\* the multiset of the elements of a sequence
SeqBag(s) ==
    [x \in {s[k] : k \in DOMAIN s} |-> Cardinality({k \in DOMAIN s : s[k] = x})]

RECURSIVE Flatten(_)
Flatten(ss) == IF ss = <<>> THEN <<>> ELSE Head(ss) \o Flatten(Tail(ss))

\* |x|
Abs(x) == Dy(IF x.s = 0 THEN 0 ELSE 1, x.m, x.e)

\* the capacity minus the sum of the strips of rectangle j, as a real number
ExactRoom(j) == ExactSub(Capacity, ExactSum(pk.packed_rects[j]))

\* the largest error of one rounded subtraction with a result in 0 .. 360:
\* half a unit in the last place of a double below 512, 2^-45
SubtractionError == Dy(1, <<1>>, -45)

\* C1 as stated: every opened large rectangle j has remaining_space[j] equal
\* to the capacity minus the sum of the strips recorded in packed_rects[j],
\* and remaining_space[j] >= 0.  Violated: each subtraction is rounded, and
\* 360 - 55.76537180435968 is not a double.
C1_Original ==
    \A j \in 1..pk.large_rect_count :
        /\ ExactCmp(pk.remaining_space[j], ExactRoom(j)) = 0
        /\ Sign(pk.remaining_space[j]) >= 0

\* C1, amended: every opened large rectangle j has remaining_space[j] >= 0,
\* and remaining_space[j] differs from the capacity minus the sum of the
\* strips recorded in packed_rects[j] by at most 2^-45 for each strip
\* recorded, the rounding of the subtractions.
C1_RemainingWithinRounding ==
    \A j \in 1..pk.large_rect_count :
        /\ Sign(pk.remaining_space[j]) >= 0
        /\ ExactCmp(Abs(ExactSub(pk.remaining_space[j], ExactRoom(j))),
                    ExactMul(FromInt(Len(pk.packed_rects[j])), SubtractionError)) <= 0
        /\ pk.packed_counts[j] = Len(pk.packed_rects[j])

\* a rectangle of three or more strips whose remaining space is not the exact
\* difference, beside a rectangle filled to exactly 0
C1_Witness ==
    /\ pc = "pack_loop"
    /\ \E j, k \in 1..pk.large_rect_count :
         /\ Len(pk.packed_rects[j]) >= 3
         /\ ExactCmp(pk.remaining_space[j], ExactRoom(j)) # 0
         /\ pk.remaining_space[k] = Zero

\* C2: when all strips are processed, the multiset of the strips recorded in
\* the large rectangles is the multiset of the strips the function was given.
C2_EveryStripPlacedOnce ==
    pc = "packed" => SeqBag(Flatten(pk.packed_rects)) = SeqBag(pk.given)

\* done, with a size given twice and more than one rectangle in use
C2_Witness ==
    /\ pc = "packed"
    /\ pk.large_rect_count >= 2
    /\ \E a, b \in DOMAIN pk.given : a # b /\ pk.given[a] = pk.given[b]
    /\ \E j \in 1..pk.large_rect_count : Len(pk.packed_rects[j]) >= 2

\* the earliest-created rectangle with room for w, 0 when there is none
EarliestWithRoom(f, w) ==
    IF \E j \in 1..f.large_rect_count : Leq(w, f.remaining_space[j])
    THEN CHOOSE j \in 1..f.large_rect_count :
           /\ Leq(w, f.remaining_space[j])
           /\ \A k \in 1..(j - 1) : Less(f.remaining_space[k], w)
    ELSE 0

\* C8: first-fit-decreasing.  The strips are processed in non-increasing
\* order; each goes into the earliest-created rectangle whose remaining space
\* is at least its size; a new rectangle, with remaining = capacity - size and
\* the strip as its sole content, is opened only when no rectangle has room.
\* The differences are the program's, rounded to double.
C8_FirstFitDecreasing ==
    [][(pc = "pack_loop" /\ pc' = "pack_loop") =>
        LET w == pk.small_widths[pk.i + 1]
            j == EarliestWithRoom(pk, w)
            c == pk.large_rect_count + 1
        IN /\ \A k \in 1..pk.i : Leq(w, pk.small_widths[k])
           /\ pk'.small_widths = pk.small_widths
           /\ IF j # 0
              THEN /\ pk'.large_rect_count = pk.large_rect_count
                   /\ pk'.remaining_space =
                        [pk.remaining_space EXCEPT ![j] = Sub(@, w)]
                   /\ pk'.packed_rects = [pk.packed_rects EXCEPT ![j] = Append(@, w)]
              ELSE /\ pk'.large_rect_count = c
                   /\ pk'.remaining_space =
                        Append(pk.remaining_space, Sub(Capacity, w))
                   /\ pk'.packed_rects = [pk.packed_rects EXCEPT ![c] = <<w>>]
      ]_vars

\* a strip went into the second rectangle although the first still has room
\* for something smaller, and a third rectangle was opened after that
C8_Witness ==
    /\ pc = "pack_loop"
    /\ pk.large_rect_count >= 3
    /\ Len(pk.packed_rects[2]) >= 2
    /\ Sign(pk.remaining_space[1]) > 0

---------------------------------------------------------------------------
(* Properties of adjust_best_widths *)

\* p * capacity as a real number
Capacities(p) == ExactMul(FromInt(p), Capacity)

\* C3: the pieces emitted for a width w sum to exactly w, each is > 0 and <=
\* the capacity; w > capacity gives floor(w / capacity) pieces of the
\* capacity, then the remainder only when it is > 0; w <= capacity gives w
\* unchanged.  The sum and the floor are those of real numbers.  Checked under
\* SplitSpec.
C3_SplitExact ==
    [][(pc = "adjust_loop" /\ pc' = "adjust_loop" /\ adj'.i = adj.i + 1) =>
        LET w == mn.best_widths[adj.i + 1]
            new == SubSeq(adj'.adjusted_widths, adj.idx + 1, adj'.idx)
        IN /\ SubSeq(adj'.adjusted_widths, 1, adj.idx) = adj.adjusted_widths
           /\ Len(adj'.adjusted_widths) = adj'.idx
           /\ ExactCmp(ExactSum(new), w) = 0
           /\ \A k \in DOMAIN new : Sign(new[k]) > 0 /\ Leq(new[k], Capacity)
           /\ IF Less(Capacity, w)
              THEN \E p \in 1..Len(new) :
                     /\ ExactCmp(Capacities(p), w) <= 0
                     /\ ExactCmp(w, Capacities(p + 1)) < 0
                     /\ \A k \in 1..p : new[k] = Capacity
                     /\ Len(new) = IF ExactCmp(w, Capacities(p)) = 0 THEN p ELSE p + 1
              ELSE new = <<w>>
      ]_vars

\* 750, the first of two widths, has been split into 360, 360, 30
C3_Witness ==
    /\ pc = "adjust_loop"
    /\ mn.size = 2
    /\ adj.i = 1
    /\ mn.best_widths[1] = FromInt(750)
    /\ adj.adjusted_widths = <<FromInt(360), FromInt(360), FromInt(30)>>

\* C9: the strips emitted never exceed the arrays they are written to: at
\* most 2 * n in adjusted_widths, at most the length of the caller's
\* best_widths in the copy back.  Violated by main's own requests (under
\* Spec): 22 widths give 23 strips, and the copy writes best_widths[22].
C9_WritesInBounds ==
    /\ adj.idx <= AdjustedCapacity(adj.new_num_radii)
    /\ Len(mn.best_widths) <= mn.size

---------------------------------------------------------------------------
(* Properties of compute_min_width, checked under SolverSpec *)

Diameter == Scale(2, cmw.r)

Min3(a, b, c) ==
    CHOOSE m \in {a, b, c} : Leq(m, a) /\ Leq(m, b) /\ Leq(m, c)

\* C4: on return the strategy named in the report line attains the minimum
\* of the three widths, and the width printed is the returned best width;
\* when the regular line is printed, the regular width is the minimum.
C4_ReportedIsMinimum ==
    pc = "returned" =>
        LET line == out[Len(out)]
            least == Min3(cmw.width_flat, cmw.width_pointy, cmw.width_regular)
        IN /\ cmw.best_width = least
           /\ line.width = least
           /\ line.packing = "flat-topped" => cmw.width_flat = least
           /\ line.packing = "pointy-topped" => cmw.width_pointy = least
           /\ line.packing = "regular" => cmw.width_regular = least

\* the fallback branch taken on a tie between pointy-topped and regular
\* with flat-topped larger
C4_Witness ==
    /\ pc = "returned"
    /\ out[Len(out)].packing = "regular"
    /\ cmw.width_pointy = cmw.width_regular
    /\ Less(cmw.width_regular, cmw.width_flat)

\* C5: compute_min_width terminates on every input with radius > 0,
\* height > 0 and count >= 1: its growth loops are capped.  A row as wide as
\* count + 2 circles holds count circles, so a flat-topped loop that goes on
\* at such a width has no rows, adds nothing at any width, and never ends;
\* stated as what a finite run refutes: the flat-topped loop does not go on
\* at a width of count + 2 circles or more.  Violated: with height <
\* 2 * radius the loop has 0 rows and goes on at every width.
C5_FlatLoopEnds ==
    pc = "flat_body" => Less(cmw.width_flat, Mul(Diameter, FromInt(cmw.n + 2)))

\* the capacity of k alternating columns: rows in the even-indexed ones,
\* max(rows - 1, 0) in the odd-indexed ones
AlternatingCapacity(k, rows) ==
    ((k + 1) \div 2) * rows + (k \div 2) * (IF rows > 0 THEN rows - 1 ELSE 0)

\* the number of columns needed: the least k whose capacity reaches n
ColumnsNeeded(n, rows) ==
    CHOOSE k \in 1..(2 * n) :
        /\ AlternatingCapacity(k, rows) >= n
        /\ \A k2 \in 1..(k - 1) : AlternatingCapacity(k2, rows) < n

\* 3 * (k * r)^2 as a real number: the square of k * r * sqrt(3)
SquareOfRows(k) ==
    LET kr == ExactMul(FromInt(k), cmw.r) IN ExactMul(FromInt(3), ExactMul(kr, kr))

\* rows = floor(height / (radius * sqrt(3))) in real numbers, stated without
\* the quotient and the root: (rows * r)^2 * 3 <= h^2 < ((rows + 1) * r)^2 * 3
IsRowsPointy(rows) ==
    /\ rows >= 1
    /\ ExactCmp(SquareOfRows(rows), ExactMul(cmw.h, cmw.h)) <= 0
    /\ ExactCmp(ExactMul(cmw.h, cmw.h), SquareOfRows(rows + 1)) < 0

\* C6 as stated: with rows = floor(height / (radius * sqrt(3))) >= 1 and k
\* columns needed, the pointy-topped width is 2 * radius when k = 1 and
\* 2 * radius + (k - 2) * radius * sqrt(3) otherwise, in the program's
\* arithmetic.
C6_Original ==
    (pc = "returned" /\ IsRowsPointy(cmw.rows_pointy)) =>
        LET k == ColumnsNeeded(cmw.n, cmw.rows_pointy)
        IN cmw.width_pointy =
             IF k = 1 THEN Diameter
             ELSE Add(Diameter, Sqrt3Times(Scale(k - 2, cmw.r)))

\* C6, amended: with rows = floor(height / (radius * sqrt(3))) >= 1 and k
\* columns needed, the pointy-topped width is
\* 2 * radius + (k - 1) * radius * sqrt(3), which is 2 * radius when k = 1,
\* in the program's arithmetic.
C6_PointyWidth ==
    (pc = "returned" /\ IsRowsPointy(cmw.rows_pointy)) =>
        LET k == ColumnsNeeded(cmw.n, cmw.rows_pointy)
        IN cmw.width_pointy = Add(Diameter, Sqrt3Times(Scale(k - 1, cmw.r)))

\* three or more columns were needed
C6_Witness ==
    /\ pc = "returned"
    /\ cmw.rows_pointy >= 2
    /\ IsRowsPointy(cmw.rows_pointy)
    /\ ColumnsNeeded(cmw.n, cmw.rows_pointy) >= 3

\* the width of count circles in a single row, 2 * radius * count, in the
\* program's arithmetic
SingleRowWidth == Mul(Diameter, FromInt(cmw.n))

\* C7 as stated: the returned width is >= the single-row width.
C7_Original == pc = "returned" => Leq(SingleRowWidth, cmw.best_width)

\* C7, amended: the returned width is <= the single-row width.
C7_AtMostSingleRow == pc = "returned" => Leq(cmw.best_width, SingleRowWidth)

\* a return with several rows, the width strictly below the single-row width
C7_Witness ==
    /\ pc = "returned"
    /\ cmw.rows_regular >= 2
    /\ Less(cmw.best_width, SingleRowWidth)

\* x is a whole number
IsWhole(x) ==
    \/ x.s = 0
    \/ x.e >= 0
    \/ (x.e > -53 /\ BShl(BShr(x.m, 0 - x.e), 0 - x.e) = x.m)

\* C10 as stated: the flat-topped width is never below the regular width, so
\* flat-topped is never strictly the smallest and its line is never the one
\* printed.  Violated: with radius 5.2, height 18 and count 6 the flat-topped
\* width is 10.4 added six times, 62.4, the regular width is 10.4 * 6,
\* 62.400000000000006, and the flat-topped line is printed.
C10_Original ==
    /\ pc \in {"report", "returned"} => Leq(cmw.width_regular, cmw.width_flat)
    /\ \A k \in DOMAIN out : out[k].packing # "flat-topped"

\* C10, amended: when 2 * radius is a whole number (the radius is a multiple
\* of 0.5, as all of main's are), the flat-topped width is never below the
\* regular width and the flat-topped line is not the one printed.
C10_FlatNeverBelowRegular ==
    (pc \in {"report", "returned"} /\ IsWhole(Diameter)) =>
        /\ Leq(cmw.width_regular, cmw.width_flat)
        /\ \A k \in DOMAIN out : out[k].packing # "flat-topped"

\* a return where flat-topped is strictly wider than regular, with odd rows in play
C10_Witness ==
    /\ pc = "returned"
    /\ IsWhole(Diameter)
    /\ cmw.rows_flat >= 2
    /\ Less(cmw.width_regular, cmw.width_flat)

====
